---- MODULE Spec2Model ----
(***************************************************************************)
(* NATTEN: the naive CPU neighborhood-neighborhood kernel for 1D data      *)
(* (NeighborhoodNeighborhood1D::launch, AV / Q-grad) and the table of      *)
(* compiled 2D GEMM members of the sm80 bfloat16 family.                   *)
(***************************************************************************)
EXTENDS Integers, Sequences, FiniteSets, TLC

VARIABLES
  arg,      \* the arguments of launch (a record, fields named as in the source)
  weights,  \* attn / d_attn buffer, read-only, indexed by linear offset
  values,   \* value / key buffer, read-only, indexed by linear offset
  output,   \* output / d_query buffer, indexed by linear offset
  b,        \* the batch loop counter of launch
  pc,       \* the calling thread: "idle", "batch", "par" or "done"
  tasks,    \* the tasks of the running at::parallel_for, keyed by their start
  writes,   \* history: for each output offset, the tasks that stored into it
  dstate,   \* dispatch: "off", "resolving", "dispatched"
  query,    \* dispatch: the runtime parameters of the call
  kernel    \* dispatch: the selected member, or the reference engine

vars == <<arg, weights, values, output, b, pc, tasks, writes, dstate, query, kernel>>

launchVars == <<arg, weights, values, output, b, pc, tasks, writes>>

dispatchVars == <<dstate, query, kernel>>

----------------------------------------------------------------------------
(* Bounds of the model. *)

MaxLength == 9

MaxKernel == 5

MaxDilation == 2

MaxHeads == 2

MaxElems == 6

MaxParElems == 3

MaxParKernel == 3

MaxParDilation == 1

MaxNarrowLength == 3

MaxAlignExp == 4

MaxQueryKernel == 23

Max(x, y) == IF x >= y THEN x ELSE y

Min(x, y) == IF x <= y THEN x ELSE y

----------------------------------------------------------------------------
(* scalar_t arithmetic.  Values are integers; a scalar type keeps          *)
(* SignificandBits significant bits and rounds to nearest, ties to even.   *)

SignificandBits(dtype) ==
  CASE dtype = "float"    -> 24
    [] dtype = "half"     -> 11
    [] dtype = "bfloat16" -> 8

\* at::acc_type<scalar_t>: the extended-precision accumulator of a type.
AccType(dtype) == IF dtype \in {"half", "bfloat16"} THEN "float" ELSE dtype

RECURSIVE Quantum(_, _, _)
Quantum(x, p, q) == IF x < (2 ^ p) * q THEN q ELSE Quantum(x, p, 2 * q)

RoundNat(x, p) ==
  LET q    == Quantum(x, p, 1)
      lo   == (x \div q) * q
      rem  == x - lo
  IN  IF 2 * rem < q THEN lo
      ELSE IF 2 * rem > q THEN lo + q
      ELSE IF (lo \div q) % 2 = 0 THEN lo ELSE lo + q

\* Conversion of an exact value to the scalar type.
Round(dtype, x) ==
  IF x >= 0 THEN RoundNat(x, SignificandBits(dtype))
  ELSE 0 - RoundNat(0 - x, SignificandBits(dtype))

\* scalar_t operator*: the product rounded to the scalar type.
Mul(dtype, x, y) == Round(dtype, x * y)

\* scalar_t operator+=: the sum rounded to the scalar type.
Add(dtype, x, y) == Round(dtype, x + y)

----------------------------------------------------------------------------
(* Window geometry: get_window_start / get_window_end                      *)
(* (natten_cpu_commons.h).  Dilation splits the axis into dilation         *)
(* interleaved sub-problems; the window of index is computed inside the    *)
(* sub-problem of index % dilation and mapped back to the axis.            *)

\* Number of positions of [0, length) in the dilation sub-problem of index.
SubLength(index, length, dilation) ==
  (length - (index % dilation) + dilation - 1) \div dilation

\* Non-causal: centred on index, clipped to the axis, then re-expanded on
\* the opposite side.  Causal: max(0, index - kernel_size + 1) in the
\* sub-problem.
get_window_start(index, length, kernel_size, neighborhood_size, dilation, is_causal) ==
  LET dilation_idx == index % dilation
      index_pdp    == index \div dilation
      length_pdp   == SubLength(index, length, dilation)
      clipped      == Max(index_pdp - neighborhood_size, 0)
      overhang     == Max(index_pdp + neighborhood_size - (length_pdp - 1), 0)
      start_idx    == IF is_causal
                      THEN Max(index_pdp - kernel_size + 1, 0)
                      ELSE Max(clipped - overhang, 0)
  IN  start_idx * dilation + dilation_idx

\* Exclusive end: index + 1 when causal, else kernel_size dilated steps
\* after the start, clipped to the axis.
get_window_end(index, start_index, length, kernel_size, neighborhood_size, dilation, is_causal) ==
  IF is_causal
  THEN index + 1
  ELSE Min(length, start_index + kernel_size * dilation)

----------------------------------------------------------------------------
(* Addressing of launch.                                                   *)

values_stride_2 == arg.dim

values_stride_1 == arg.length * values_stride_2

values_stride_0 == arg.heads * values_stride_1

\* int64_t attnOffset = b * weights_stride_0 + h * weights_stride_1 + i * weights_stride_2
AttnOffset(bb, h, i) ==
  bb * arg.weights_stride_0 + h * arg.weights_stride_1 + i * arg.weights_stride_2

\* int64_t valuesOffset = b * values_stride_0 + h * values_stride_1 + d
ValuesOffset(bb, h, d) == bb * values_stride_0 + h * values_stride_1 + d

ValuesIndexBad(valuesOffset, xi) == valuesOffset + xi

\* int64_t valuesIndex = valuesOffset + xi * values_stride_2
ValuesIndex(valuesOffset, xi) == valuesOffset + xi * values_stride_2

LinearIndexBad(bb, h, i, d) == bb * values_stride_0 + i * values_stride_2 + d

\* int64_t linearIndex = b * values_stride_0 + h * values_stride_1 + i * values_stride_2 + d
LinearIndex(bb, h, i, d) ==
  bb * values_stride_0 + h * values_stride_1 + i * values_stride_2 + d

HeadLoopCondBad(h, end) == h <= end

HeadLoopCondShort(h, end) == h + 1 < end

\* for (int32_t h = start; h < end; h++)
HeadLoopCond(h, end) == h < end

NeighborLoopCondBad(xi, ei) == xi <= ei

\* for (int32_t xi = ni; xi < ei; xi += dilation)
NeighborLoopCond(xi, ei) == xi < ei

NeighborLoopStepBad(xi) == xi + 1

NeighborLoopStep(xi) == xi + arg.dilation

NextAttnOffsetBad(attnOffset) == attnOffset + arg.dilation

\* ++attnOffset
NextAttnOffset(attnOffset) == attnOffset + 1

\* A read of a buffer: inside the buffer its element, outside it anything.
ReadSet(buf, idx) == IF idx \in DOMAIN buf THEN {buf[idx]} ELSE {0, 1}

\* output_update += weights[attnOffset] * values[valuesIndex], in scalar_t.
Accumulate(dtype, output_update, w, v) == Add(dtype, output_update, Mul(dtype, w, v))

----------------------------------------------------------------------------
(* The call boundary: what the binding layer lets through to launch.       *)

Validated(a) ==
  /\ a.batch_size >= 1 /\ a.heads >= 1 /\ a.length >= 1 /\ a.dim >= 1
  /\ a.kernel_size >= 1 /\ a.kernel_size % 2 = 1
  /\ a.dilation >= 1
  /\ (a.is_causal \/ a.kernel_size <= a.length)

\* The arguments of one call: attn is contiguous [batch, heads, length, kernel].
MakeArg(B, H, L, D, K, dil, causal, dtype) ==
  [batch_size |-> B, heads |-> H, length |-> L, dim |-> D,
   kernel_size |-> K, dilation |-> dil, is_causal |-> causal,
   weights_stride_2 |-> K, weights_stride_1 |-> L * K,
   weights_stride_0 |-> H * L * K, dtype |-> dtype]

ArgSet(maxB, maxH, maxL, maxD, maxK, maxDil, maxElems, dtypes) ==
  { a \in { MakeArg(B, H, L, D, K, dil, causal, dtype) :
              B \in 1..maxB, H \in 1..maxH, L \in 1..maxL, D \in 1..maxD,
              K \in 1..maxK, dil \in 1..maxDil, causal \in BOOLEAN,
              dtype \in dtypes } :
      /\ Validated(a)
      /\ a.batch_size * a.heads * a.length * a.dim <= maxElems }

WeightsSize(a) == a.batch_size * a.weights_stride_0

ValuesSize(a) == a.batch_size * a.heads * a.length * a.dim

\* Contents of the weights buffer.
WeightFill(fill, off, a) ==
  CASE fill = "ones" -> 1
    [] fill = "ramp" -> off + 1
    [] fill = "big"  -> IF off % a.kernel_size = 0
                        THEN 2 ^ SignificandBits(a.dtype) ELSE 1

\* Contents of the values buffer.
ValueFill(fill, idx, a) ==
  CASE fill = "ones" -> 1
    [] fill = "ramp" -> 2 * idx + 1
    [] fill = "big"  -> 1

NoTasks == [s \in {} |-> 0]

\* One generated function: the key in its name (dtype, tile, sm, ks, align)
\* and the configuration in its body (GemmConfig2D's last argument,
\* ArchArgs, AlignmentConfig<A, B, C>, DTypeConfig).
Member(tile, area, ks, align, nbhd, alignB, alignC) ==
  [dtype |-> "bfloat16", tile |-> tile, area |-> area, sm |-> 80,
   kernel_size |-> ks, align |-> align,
   cfg_neighborhood |-> nbhd, cfg_sm |-> 80, cfg_dtype |-> "bfloat16",
   cfg_alignA |-> 1, cfg_alignB |-> alignB, cfg_alignC |-> alignC]

NoMember == Member("none", 0, 0, 0, 0, 0, 0)

NoKernel == [kind |-> "none", member |-> NoMember]

Reference == [kind |-> "reference", member |-> NoMember]

NoQuery == [dtype |-> "none", sm |-> 0, kernel_size |-> 0, alignment |-> 0]

\* Entry of launch: the caller's buffers, nothing stored yet (-1 marks an
\* output cell that has not been stored).
InitLaunch(Args, Fills) ==
  /\ arg \in Args
  /\ \E fill \in Fills :
       /\ weights = [off \in 0..(WeightsSize(arg) - 1) |-> WeightFill(fill, off, arg)]
       /\ values = [idx \in 0..(ValuesSize(arg) - 1) |-> ValueFill(fill, idx, arg)]
  /\ output = [idx \in 0..(ValuesSize(arg) - 1) |-> -1]
  /\ writes = [idx \in 0..(ValuesSize(arg) - 1) |-> << >>]
  /\ b = 0
  /\ pc = "batch"
  /\ tasks = NoTasks
  /\ dstate = "off"
  /\ query = NoQuery
  /\ kernel = NoKernel

----------------------------------------------------------------------------
(* launch: the batch loop and at::parallel_for over [0, heads).            *)

\* auto neighborhood_size = kernel_size / 2
neighborhood_size == arg.kernel_size \div 2

\* auto ni = get_window_start(i, length, kernel_size, neighborhood_size, ...)
WindowStart(i) ==
  get_window_start(i, arg.length, arg.kernel_size, neighborhood_size,
                   arg.dilation, arg.is_causal)

\* auto ei = get_window_end(i, ni, length, kernel_size, neighborhood_size, ...)
WindowEnd(i, ni) ==
  get_window_end(i, ni, arg.length, arg.kernel_size, neighborhood_size,
                 arg.dilation, arg.is_causal)

\* The end of the sub-range that starts at s, for the cut points cuts.
RangeEnd(s, cuts) ==
  LET later == { c \in cuts \cup {arg.heads} : c > s }
  IN  CHOOSE e \in later : \A c \in later : e <= c

NewTask(s, e) ==
  [start |-> s, end |-> e, h |-> s, i |-> 0, d |-> 0, ni |-> 0, ei |-> 0,
   xi |-> 0, attnOffset |-> 0, valuesOffset |-> 0, output_update |-> 0,
   reads |-> << >>, pc |-> "head"]

\* for (b ...) at::parallel_for(0, heads, GRAIN_SIZE, ...): the head range is
\* split at cuts into contiguous sub-ranges, one task each.
ParallelFor(cuts) ==
  /\ pc = "batch"
  /\ b < arg.batch_size
  /\ tasks' = [s \in {0} \cup cuts |-> NewTask(s, RangeEnd(s, cuts))]
  /\ pc' = "par"
  /\ UNCHANGED <<arg, weights, values, output, b, writes, dispatchVars>>

\* at::parallel_for returns when every task has returned; b++.
Join ==
  /\ pc = "par"
  /\ \A s \in DOMAIN tasks : tasks[s].pc = "fin"
  /\ tasks' = NoTasks
  /\ b' = b + 1
  /\ pc' = "batch"
  /\ UNCHANGED <<arg, weights, values, output, writes, dispatchVars>>

\* The batch loop ends and launch returns.
Return ==
  /\ pc = "batch"
  /\ ~(b < arg.batch_size)
  /\ pc' = "done"
  /\ UNCHANGED <<arg, weights, values, output, b, tasks, writes, dispatchVars>>

\* for (h = start; h < end; h++): test, then enter the position loop.
TaskHead(s) ==
  /\ pc = "par"
  /\ tasks[s].pc = "head"
  /\ tasks' = [tasks EXCEPT ![s] =
       IF HeadLoopCond(@.h, @.end)
       THEN [@ EXCEPT !.i = 0, !.pc = "pos"]
       ELSE [@ EXCEPT !.pc = "fin"]]
  /\ UNCHANGED <<arg, weights, values, output, b, pc, writes, dispatchVars>>

\* for (i = 0; i < length; i++): test, then the window of i.
TaskPos(s) ==
  /\ pc = "par"
  /\ tasks[s].pc = "pos"
  /\ tasks' = [tasks EXCEPT ![s] =
       IF @.i < arg.length
       THEN [@ EXCEPT !.ni = WindowStart(tasks[s].i),
                      !.ei = WindowEnd(tasks[s].i, WindowStart(tasks[s].i)),
                      !.d = 0, !.pc = "cell"]
       ELSE [@ EXCEPT !.h = @ + 1, !.pc = "head"]]
  /\ UNCHANGED <<arg, weights, values, output, b, pc, writes, dispatchVars>>

\* for (d = 0; d < dim; d++): test, then the locals of one output cell.
TaskCell(s) ==
  /\ pc = "par"
  /\ tasks[s].pc = "cell"
  /\ tasks' = [tasks EXCEPT ![s] =
       IF @.d < arg.dim
       THEN [@ EXCEPT !.output_update = 0,
                      !.attnOffset = AttnOffset(b, tasks[s].h, tasks[s].i),
                      !.valuesOffset = ValuesOffset(b, tasks[s].h, tasks[s].d),
                      !.xi = tasks[s].ni,
                      !.reads = << >>,
                      !.pc = "nbr"]
       ELSE [@ EXCEPT !.i = @ + 1, !.pc = "pos"]]
  /\ UNCHANGED <<arg, weights, values, output, b, pc, writes, dispatchVars>>

\* One iteration of the neighbor loop.
TaskNeighbor(s) ==
  /\ pc = "par"
  /\ tasks[s].pc = "nbr"
  /\ NeighborLoopCond(tasks[s].xi, tasks[s].ei)
  /\ \E w \in ReadSet(weights, tasks[s].attnOffset),
        v \in ReadSet(values, ValuesIndex(tasks[s].valuesOffset, tasks[s].xi)) :
       tasks' = [tasks EXCEPT ![s] =
         [@ EXCEPT !.output_update = Accumulate(arg.dtype, @, w, v),
                   !.attnOffset = NextAttnOffset(@),
                   !.xi = NeighborLoopStep(@),
                   !.reads = Append(@,
                      [xi |-> tasks[s].xi, attnOffset |-> tasks[s].attnOffset,
                       valuesIndex |-> ValuesIndex(tasks[s].valuesOffset, tasks[s].xi)])]]
  /\ UNCHANGED <<arg, weights, values, output, b, pc, writes, dispatchVars>>

\* The neighbor loop ends: output[linearIndex] = output_update; d++.
TaskStore(s) ==
  /\ pc = "par"
  /\ tasks[s].pc = "nbr"
  /\ ~NeighborLoopCond(tasks[s].xi, tasks[s].ei)
  /\ LET linearIndex == LinearIndex(b, tasks[s].h, tasks[s].i, tasks[s].d)
     IN  /\ output' = [output EXCEPT ![linearIndex] = tasks[s].output_update]
         /\ writes' = [writes EXCEPT ![linearIndex] =
              Append(@, [b |-> b, start |-> tasks[s].start, end |-> tasks[s].end])]
  /\ tasks' = [tasks EXCEPT ![s] = [@ EXCEPT !.d = @ + 1, !.pc = "cell"]]
  /\ UNCHANGED <<arg, weights, values, b, pc, dispatchVars>>

NextLaunch ==
  \/ \E cuts \in SUBSET (1..(arg.heads - 1)) : ParallelFor(cuts)
  \/ Join
  \/ Return
  \/ \E s \in DOMAIN tasks : TaskHead(s)
  \/ \E s \in DOMAIN tasks : TaskPos(s)
  \/ \E s \in DOMAIN tasks : TaskCell(s)
  \/ \E s \in DOMAIN tasks : TaskNeighbor(s)
  \/ \E s \in DOMAIN tasks : TaskStore(s)

\* One head, one batch, one channel: every window of a long axis.
LongArgs == ArgSet(1, 1, MaxLength, 1, MaxKernel, MaxDilation, MaxLength, {"float"})

\* Several batches, heads and channels of at most MaxElems output cells.
WideArgs ==
  ArgSet(MaxElems, MaxHeads, MaxElems, MaxElems, MaxKernel, MaxDilation,
         MaxElems, {"float"})

Init == InitLaunch(LongArgs \cup WideArgs, {"ones", "ramp"})

Spec == Init /\ [][NextLaunch]_vars

\* Every split of up to MaxParElems heads into tasks, every interleaving.
ParArgs ==
  ArgSet(MaxParElems, MaxParElems, MaxParElems, MaxParElems, MaxParKernel,
         MaxParDilation, MaxParElems, {"float"})

InitPar == InitLaunch(ParArgs, {"ramp"})

SpecPar == InitPar /\ [][NextLaunch]_vars

\* Narrow element types, one task, rows whose sum needs more bits than the type.
NarrowArgs ==
  ArgSet(1, 1, MaxNarrowLength, 1, MaxParKernel, MaxParDilation,
         MaxNarrowLength, {"half", "bfloat16"})

InitNarrow == InitLaunch(NarrowArgs, {"ones", "big"})

SpecNarrow == InitNarrow /\ [][NextLaunch]_vars

\* The tasks of at::parallel_for run on a thread pool: a step that stays
\* possible is taken.
FairSpec == InitPar /\ [][NextLaunch]_vars /\ WF_vars(NextLaunch)

----------------------------------------------------------------------------
(* What the claims speak of, written in closed form from the arguments.    *)

\* Offset of output[bb, h, i, d] and values[bb, h, i, d] (contiguous).
CellOffset(bb, h, i, d) ==
  ((bb * arg.heads + h) * arg.length + i) * arg.dim + d

\* Offset of weights[bb, h, i, k].
WeightOffset(bb, h, i, k) ==
  bb * arg.weights_stride_0 + h * arg.weights_stride_1
    + i * arg.weights_stride_2 + k

\* Number of positions of [WindowStart(i), WindowEnd(i)) stepped by dilation.
WindowCount(i) ==
  LET ws == WindowStart(i)
      we == WindowEnd(i, ws)
  IN  IF we > ws THEN (we - ws + arg.dilation - 1) \div arg.dilation ELSE 0

\* The k-th position of the window of i.
WindowPosition(i, k) == WindowStart(i) + k * arg.dilation

RECURSIVE WeightedSum(_, _, _, _, _)
\* Sum over the first n window ranks k of weights[bb,h,i,k] * values[bb,h,x_k,d].
WeightedSum(bb, h, i, d, n) ==
  IF n = 0 THEN 0
  ELSE WeightedSum(bb, h, i, d, n - 1)
         + weights[WeightOffset(bb, h, i, n - 1)]
             * values[CellOffset(bb, h, WindowPosition(i, n - 1), d)]

\* The task has stored a cell of position i and not yet left it.
Completed(s) == tasks[s].pc = "cell" /\ tasks[s].d >= 1

\* The task is inside the neighbor loop of a cell, or has just stored it.
InCell(s) == tasks[s].pc = "nbr" \/ Completed(s)

AllOnes ==
  /\ \A off \in DOMAIN weights : weights[off] = 1
  /\ \A idx \in DOMAIN values : values[idx] = 1

\* length=5, kernel_size=3, dilation=1, dim=1, all scores and values 1.
Scenario(causal) ==
  /\ arg.length = 5 /\ arg.kernel_size = 3 /\ arg.dilation = 1 /\ arg.dim = 1
  /\ arg.batch_size = 1 /\ arg.heads = 1 /\ arg.is_causal = causal
  /\ AllOnes

----------------------------------------------------------------------------
(* C1: every stored output element (b,h,i,d) equals the sum over the       *)
(* window ranks k of weights[b,h,i,k] * values[b,h,x_k,d], where x_k is    *)
(* the k-th position of [window_start(i), window_end(i)) stepped by        *)
(* dilation: the k-th weight is paired with the k-th visited neighbor.     *)
(* The buffers are bound to (attn, value, output) or to (d_attn, key,      *)
(* d_query); launch does not tell the two bindings apart.                  *)
C1_PairedWeightedSum ==
  \A bb \in 0..(arg.batch_size - 1), h \in 0..(arg.heads - 1),
     i \in 0..(arg.length - 1), d \in 0..(arg.dim - 1) :
    (writes[CellOffset(bb, h, i, d)] # << >> \/ pc = "done")
      => output[CellOffset(bb, h, i, d)] = WeightedSum(bb, h, i, d, WindowCount(i))

C1_Witness ==
  /\ pc = "done"
  /\ arg.heads = 2 /\ arg.length = 3 /\ arg.kernel_size = 3 /\ ~arg.is_causal
  /\ arg.dilation = 1
  /\ weights[0] # weights[1]
  /\ output[CellOffset(0, 1, 2, 0)] = WeightedSum(0, 1, 2, 0, 3)

(* C4: every iteration of the neighbor loop reads a value position xi      *)
(* with 0 <= xi < length and a weight of window rank k = attnOffset - row  *)
(* base with 0 <= k < kernel_size; the loop makes at most kernel_size      *)
(* iterations and every read lies inside the buffer it addresses.          *)
C4_ReadsInBounds ==
  \A s \in DOMAIN tasks :
    InCell(s) =>
      /\ Len(tasks[s].reads) <= arg.kernel_size
      /\ \A n \in 1..Len(tasks[s].reads) :
           LET r == tasks[s].reads[n]
               k == r.attnOffset - WeightOffset(b, tasks[s].h, tasks[s].i, 0)
           IN  /\ 0 <= r.xi /\ r.xi < arg.length
               /\ 0 <= k /\ k < arg.kernel_size
               /\ r.attnOffset \in DOMAIN weights
               /\ r.valuesIndex \in DOMAIN values

C4_Witness ==
  \E s \in DOMAIN tasks :
    /\ Completed(s)
    /\ arg.kernel_size = 5 /\ arg.dilation = 1 /\ ~arg.is_causal
    /\ tasks[s].i = arg.length - 1
    /\ Len(tasks[s].reads) = 5

(* C5 as stated: for causal=false and length >= kernel_size, for every     *)
(* dilation and every query position, the window holds exactly             *)
(* kernel_size positions.                                                  *)
C5_FullWindowWheneverLengthAtLeastKernel ==
  \A s \in DOMAIN tasks :
    (Completed(s) /\ ~arg.is_causal /\ arg.length >= arg.kernel_size)
      => Len(tasks[s].reads) = arg.kernel_size

(* C5 amended: for causal=false and length >= kernel_size * dilation, for  *)
(* every query position the loop visits exactly kernel_size positions,     *)
(* all inside [0, length) (a boundary query gets a full window shifted     *)
(* inward); with length=5, kernel_size=3, dilation=1, dim=1 and all        *)
(* weights and values 1 the output is [3,3,3,3,3].                         *)
C5_FullWindow ==
  /\ \A s \in DOMAIN tasks :
       (Completed(s) /\ ~arg.is_causal
          /\ arg.length >= arg.kernel_size * arg.dilation)
         => /\ Len(tasks[s].reads) = arg.kernel_size
            /\ \A n \in 1..Len(tasks[s].reads) :
                 /\ tasks[s].reads[n].xi \in 0..(arg.length - 1)
                 /\ \A m \in 1..(n - 1) :
                      tasks[s].reads[m].xi < tasks[s].reads[n].xi
  /\ (Scenario(FALSE) /\ pc = "done") => output = [idx \in 0..4 |-> 3]

C5_Witness ==
  \E s \in DOMAIN tasks :
    /\ Completed(s)
    /\ ~arg.is_causal /\ arg.kernel_size = 3 /\ arg.dilation = 2
    /\ arg.length >= 6
    /\ tasks[s].i = arg.length - 1
    /\ Len(tasks[s].reads) = 3

C7_DilationResidue ==
  /\ \A s \in DOMAIN tasks :
       InCell(s) =>
         \A n \in 1..Len(tasks[s].reads) :
           tasks[s].reads[n].xi % arg.dilation = tasks[s].i % arg.dilation
  /\ \A i, j \in 0..(arg.length - 1) :
       (i % arg.dilation # j % arg.dilation) =>
         { WindowPosition(i, k) : k \in 0..(WindowCount(i) - 1) }
           \cap { WindowPosition(j, k) : k \in 0..(WindowCount(j) - 1) } = {}

C7_Witness ==
  \E s \in DOMAIN tasks :
    /\ Completed(s)
    /\ arg.length = 9 /\ arg.kernel_size = 3 /\ arg.dilation = 2
    /\ ~arg.is_causal
    /\ tasks[s].i = 3
    /\ Len(tasks[s].reads) = 3
    /\ tasks[s].reads[1].xi = 1

----------------------------------------------------------------------------
(* Concurrency of launch.                                                  *)

\* The head index of an output offset.
HeadOf(idx) == (idx \div (arg.length * arg.dim)) % arg.heads

\* The batch index of an output offset.
BatchOf(idx) == idx \div (arg.heads * arg.length * arg.dim)

RECURSIVE SeqAccumulate(_, _, _, _, _)
\* The value one task computes for cell (bb,h,i,d): n iterations of the
\* neighbor loop, run alone.
SeqAccumulate(bb, h, i, d, n) ==
  IF n = 0 THEN 0
  ELSE Accumulate(arg.dtype, SeqAccumulate(bb, h, i, d, n - 1),
         weights[AttnOffset(bb, h, i) + n - 1],
         values[ValuesIndex(ValuesOffset(bb, h, d),
                            WindowStart(i) + (n - 1) * arg.dilation)])

\* Order of the stores of a single task that runs all heads.
StoredBefore(c1, c2) ==
  \/ c1[1] < c2[1]
  \/ c1[1] = c2[1] /\ c1[2] < c2[2]
  \/ c1[1] = c2[1] /\ c1[2] = c2[2] /\ c1[3] < c2[3]
  \/ c1[1] = c2[1] /\ c1[2] = c2[2] /\ c1[3] = c2[3] /\ c1[4] <= c2[4]

\* The output buffer after launch has run every head in a single task.
SequentialOutput ==
  LET cells == (0..(arg.batch_size - 1)) \X (0..(arg.heads - 1))
                 \X (0..(arg.length - 1)) \X (0..(arg.dim - 1))
      at(idx) == { c \in cells : LinearIndex(c[1], c[2], c[3], c[4]) = idx }
      last(S) == CHOOSE c \in S : \A c2 \in S : StoredBefore(c2, c)
  IN  [idx \in DOMAIN output |->
         IF at(idx) = {} THEN -1
         ELSE LET c == last(at(idx))
              IN  SeqAccumulate(c[1], c[2], c[3], c[4], WindowCount(c[3]))]

(* C2: for every split of [0, heads) into tasks and every interleaving,    *)
(* each output cell is stored by at most one task (exactly one once        *)
(* launch has returned), the storing task owns the head of the cell, and   *)
(* no task ever works on a head outside its own [start, end).              *)
C2_OneWriterPerCell ==
  /\ \A idx \in DOMAIN writes :
       /\ Len(writes[idx]) <= 1
       /\ \A n \in 1..Len(writes[idx]) :
            /\ writes[idx][n].start <= HeadOf(idx)
            /\ HeadOf(idx) < writes[idx][n].end
            /\ writes[idx][n].b = BatchOf(idx)
       /\ pc = "done" => Len(writes[idx]) = 1
  /\ \A s \in DOMAIN tasks :
       tasks[s].pc \in {"pos", "cell", "nbr"} =>
         (tasks[s].start <= tasks[s].h /\ tasks[s].h < tasks[s].end)
  /\ \A s, t \in DOMAIN tasks :
       s # t => (tasks[s].end <= tasks[t].start \/ tasks[t].end <= tasks[s].start)

C2_Witness ==
  /\ pc = "par"
  /\ arg.heads = 3
  /\ Cardinality(DOMAIN tasks) = 3
  /\ \A s \in DOMAIN tasks : tasks[s].pc = "fin"
  /\ \A idx \in DOMAIN writes : BatchOf(idx) = 0 => Len(writes[idx]) = 1

(* C3: the output buffer after launch is the same for every split of the   *)
(* heads into tasks and every interleaving of the tasks' steps: it is the  *)
(* buffer a single task leaves that runs all heads in order.               *)
C3_ScheduleIndependent == pc = "done" => output = SequentialOutput

C3_Witness ==
  /\ pc = "done"
  /\ arg.heads = 3
  /\ \E i1, i2 \in DOMAIN writes :
       /\ writes[i1] # << >> /\ writes[i2] # << >>
       /\ writes[i1][1].start # writes[i2][1].start
  /\ output = SequentialOutput

\* Every cell of the output buffer has been stored.
AllWritten ==
  \A idx \in DOMAIN output : writes[idx] # << >> /\ output[idx] # -1

(* C8: under fair scheduling of the tasks launch returns, and when it      *)
(* has returned every output cell (b,h,i,d) has been stored; no state in   *)
(* which launch has returned leaves part of the buffer unwritten.          *)
C8_TerminatesFullyWritten ==
  /\ <>(pc = "done")
  /\ [](pc = "done" => AllWritten)

C8_Witness ==
  /\ pc = "done"
  /\ arg.heads >= 2
  /\ AllWritten
  /\ \E i1, i2 \in DOMAIN writes : writes[i1][1].start # writes[i2][1].start

----------------------------------------------------------------------------
(* Numerics of the aggregate loop.                                         *)

RECURSIVE WideSum(_, _, _, _, _)
\* The sum of the first n products of cell (bb,h,i,d), held in the
\* accumulator type of the element type.
WideSum(bb, h, i, d, n) ==
  IF n = 0 THEN 0
  ELSE Add(AccType(arg.dtype), WideSum(bb, h, i, d, n - 1),
           Mul(AccType(arg.dtype),
               weights[WeightOffset(bb, h, i, n - 1)],
               values[CellOffset(bb, h, WindowPosition(i, n - 1), d)]))

(* C10: for an element type narrower than 32 bits the running sum over     *)
(* the window is held in the wider accumulator type in every iteration     *)
(* and is narrowed to the element type once, at the store: no partial sum  *)
(* is rounded to the element type.                                         *)
C10_WideAccumulator ==
  /\ \A s \in DOMAIN tasks :
       InCell(s) =>
         tasks[s].output_update
           = WideSum(b, tasks[s].h, tasks[s].i,
                     IF Completed(s) THEN tasks[s].d - 1 ELSE tasks[s].d,
                     Len(tasks[s].reads))
  /\ \A bb \in 0..(arg.batch_size - 1), h \in 0..(arg.heads - 1),
        i \in 0..(arg.length - 1), d \in 0..(arg.dim - 1) :
       writes[CellOffset(bb, h, i, d)] # << >>
         => output[CellOffset(bb, h, i, d)]
              = Round(arg.dtype, WideSum(bb, h, i, d, WindowCount(i)))

----------------------------------------------------------------------------
(* The compiled members of the 2D neighborhood-neighborhood GEMM family    *)
(* and their selection.                                                    *)

MembersMisaligned ==
  { Member("64x64x32_32x32x32_16x8x16_3", 64 * 64, 11, 4, 5, 4, 4),
    Member("64x64x32_32x32x32_16x8x16_3", 64 * 64, 11, 2, 5, 2, 2),
    Member("64x64x32_32x32x32_16x8x16_3", 64 * 64, 13, 8, 6, 8, 8),
    Member("64x64x32_32x32x32_16x8x16_3", 64 * 64, 13, 4, 6, 8, 8),
    Member("64x64x32_32x32x32_16x8x16_3", 64 * 64, 13, 2, 6, 2, 2),
    Member("64x64x32_32x32x32_16x8x16_3", 64 * 64, 15, 8, 7, 8, 8),
    Member("64x64x32_32x32x32_16x8x16_3", 64 * 64, 15, 4, 7, 4, 4),
    Member("64x64x32_32x32x32_16x8x16_3", 64 * 64, 15, 2, 7, 2, 2),
    Member("64x64x32_32x32x32_16x8x16_3", 64 * 64, 17, 8, 8, 8, 8),
    Member("64x64x32_32x32x32_16x8x16_3", 64 * 64, 17, 4, 8, 4, 4),
    Member("64x64x32_32x32x32_16x8x16_3", 64 * 64, 17, 2, 8, 2, 2),
    Member("64x64x32_32x32x32_16x8x16_3", 64 * 64, 19, 8, 9, 8, 8),
    Member("64x64x32_32x32x32_16x8x16_3", 64 * 64, 19, 4, 9, 4, 4),
    Member("64x64x32_32x32x32_16x8x16_3", 64 * 64, 19, 2, 9, 2, 2),
    Member("128x128x32_64x64x32_16x8x16_3", 128 * 128, 21, 8, 10, 8, 8) }

Members ==
  { Member("64x64x32_32x32x32_16x8x16_3", 64 * 64, 11, 4, 5, 4, 4),
    Member("64x64x32_32x32x32_16x8x16_3", 64 * 64, 11, 2, 5, 2, 2),
    Member("64x64x32_32x32x32_16x8x16_3", 64 * 64, 13, 8, 6, 8, 8),
    Member("64x64x32_32x32x32_16x8x16_3", 64 * 64, 13, 4, 6, 4, 4),
    Member("64x64x32_32x32x32_16x8x16_3", 64 * 64, 13, 2, 6, 2, 2),
    Member("64x64x32_32x32x32_16x8x16_3", 64 * 64, 15, 8, 7, 8, 8),
    Member("64x64x32_32x32x32_16x8x16_3", 64 * 64, 15, 4, 7, 4, 4),
    Member("64x64x32_32x32x32_16x8x16_3", 64 * 64, 15, 2, 7, 2, 2),
    Member("64x64x32_32x32x32_16x8x16_3", 64 * 64, 17, 8, 8, 8, 8),
    Member("64x64x32_32x32x32_16x8x16_3", 64 * 64, 17, 4, 8, 4, 4),
    Member("64x64x32_32x32x32_16x8x16_3", 64 * 64, 17, 2, 8, 2, 2),
    Member("64x64x32_32x32x32_16x8x16_3", 64 * 64, 19, 8, 9, 8, 8),
    Member("64x64x32_32x32x32_16x8x16_3", 64 * 64, 19, 4, 9, 4, 4),
    Member("64x64x32_32x32x32_16x8x16_3", 64 * 64, 19, 2, 9, 2, 2),
    Member("128x128x32_64x64x32_16x8x16_3", 128 * 128, 21, 8, 10, 8, 8) }

\* The alignment a member needs of the buffers it loads and stores.
Requirement(m) == Max(m.cfg_alignA, Max(m.cfg_alignB, m.cfg_alignC))

\* The members that serve a query: same type, generation and kernel size,
\* alignment class not above the measured alignment.
Candidates(q) ==
  { m \in Members :
      /\ m.dtype = q.dtype /\ m.sm = q.sm /\ m.kernel_size = q.kernel_size
      /\ m.align <= q.alignment }

\* The largest alignment class, then the largest tile.
Preferred(m1, m2) ==
  \/ m1.align > m2.align
  \/ m1.align = m2.align /\ m1.area >= m2.area

Select(q) ==
  CHOOSE m \in Candidates(q) : \A m2 \in Candidates(q) : Preferred(m, m2)

Queries ==
  [dtype : {"bfloat16", "float16", "float"},
   sm : {70, 80},
   kernel_size : { k \in 3..MaxQueryKernel : k % 2 = 1 },
   alignment : { 2 ^ e : e \in 0..MaxAlignExp }]

InitDispatch ==
  /\ arg = MakeArg(1, 1, 1, 1, 1, 1, FALSE, "float")
  /\ weights = << >>
  /\ values = << >>
  /\ output = << >>
  /\ writes = << >>
  /\ b = 0
  /\ pc = "idle"
  /\ tasks = NoTasks
  /\ dstate = "resolving"
  /\ query \in Queries
  /\ kernel = NoKernel

\* resolving -> dispatched: a member matches and is invoked.
DispatchMember ==
  /\ dstate = "resolving"
  /\ Candidates(query) # {}
  /\ kernel' = [kind |-> "member", member |-> Select(query)]
  /\ dstate' = "dispatched"
  /\ UNCHANGED <<launchVars, query>>

\* resolving -> dispatched: no member matches, the reference engine runs.
DispatchFallback ==
  /\ dstate = "resolving"
  /\ Candidates(query) = {}
  /\ kernel' = Reference
  /\ dstate' = "dispatched"
  /\ UNCHANGED <<launchVars, query>>

NextDispatch == DispatchMember \/ DispatchFallback

SpecDispatch == InitDispatch /\ [][NextDispatch]_vars

(* C9: for a query whose type, generation and kernel size match, dispatch  *)
(* selects the member with the largest alignment class <= the measured     *)
(* minimum pointer alignment, and never a member whose alignment           *)
(* requirement is stricter than the measured alignment; a query that       *)
(* matches no member falls back to the reference engine.                   *)
C9_DispatchAlignment ==
  dstate = "dispatched" =>
    /\ kernel.kind \in {"member", "reference"}
    /\ kernel.kind = "member" =>
         /\ kernel.member \in Members
         /\ kernel.member.dtype = query.dtype
         /\ kernel.member.sm = query.sm
         /\ kernel.member.kernel_size = query.kernel_size
         /\ kernel.member.cfg_dtype = query.dtype
         /\ kernel.member.cfg_sm = query.sm
         /\ kernel.member.cfg_neighborhood = query.kernel_size \div 2
         /\ kernel.member.align <= query.alignment
         /\ Requirement(kernel.member) <= query.alignment
         /\ \A m \in Members :
              (/\ m.dtype = query.dtype /\ m.sm = query.sm
               /\ m.kernel_size = query.kernel_size
               /\ m.align <= query.alignment)
                => m.align <= kernel.member.align
    /\ kernel.kind = "reference" =>
         ~ \E m \in Members :
              /\ m.dtype = query.dtype /\ m.sm = query.sm
              /\ m.kernel_size = query.kernel_size
              /\ m.align <= query.alignment

C9_Witness ==
  /\ dstate = "dispatched"
  /\ query.dtype = "bfloat16" /\ query.sm = 80
  /\ query.kernel_size = 13 /\ query.alignment = 4
  /\ kernel.kind = "member"
  /\ kernel.member.align = 4

====
